---- MODULE Spec2Model ----
(***************************************************************************)
(* Row-scanning table segmenter of app.py: extract_columns and             *)
(* process_extracted_table, as a state machine over the rows yielded by    *)
(* df.itertuples().                                                        *)
(*                                                                         *)
(* Text is a sequence of characters.  Hangul syllables are written in      *)
(* Revised Romanization, one token per syllable:                           *)
(*   반 ban  영 yeong  여 yeo  부 bu  적 jeok  합 hap  분 bun  권 gwon      *)
(*   고 go  조 jo  건 geon  미 mi  해 hae  당 dang  없 eop  음 eum          *)
(*   사 sa  항 hang  보 bo  류 ryu  비 bi                                   *)
(* A cell value is [t |-> its Python type, v |-> its characters].          *)
(* Python indices are 0-based: element p of a tuple r is r[p + 1].         *)
(***************************************************************************)
EXTENDS Integers, Sequences, FiniteSets, TLC

VARIABLES
    cells,             \* the cell values the data frame is drawn from
    widths,            \* the numbers of cells its rows may have
    limit,             \* the largest number of rows it may have
    i,                 \* number of rows the for loop has consumed
    row,               \* loop variable: the tuple of the current iteration
    table_detected,
    curr_table,
    extracted_tables,
    pc                 \* the branch of the function executed last

vars ==
    <<cells, widths, limit, i, row, table_detected, curr_table,
      extracted_tables, pc>>

\* Largest number of rows of a data frame over two cell values.
MaxRows == 6

\* Largest number of rows of a data frame over three cell values.
MaxRowsRich == 3

\* Largest number of columns of a data frame.
MaxCols == 2

-----------------------------------------------------------------------------
(* Python values *)

Str(s) == [t |-> "str", v |-> s]

Digits == <<"0", "1", "2", "3", "4", "5", "6", "7", "8", "9">>

Number(n) == [t |-> "int", v |-> <<Digits[n + 1]>>]

NoneCell == [t |-> "NoneType", v |-> <<>>]

None == [kind |-> "None"]

IndexError == [t |-> "IndexError", v |-> <<>>]

isinstance_str(item) == item.t = "str"

\* Python truth value of a cell: "" , 0 and None are false.
Truthy(item) ==
    CASE item.t = "str" -> item.v # <<>>
      [] item.t = "int" -> item.v # <<"0">>
      [] OTHER -> FALSE

\* txt in s, for strings
str_in(txt, s) ==
    \E k \in 0..(Len(s) - Len(txt)) : SubSeq(s, k + 1, k + Len(txt)) = txt

\* s.replace(old, new), old non-empty: leftmost non-overlapping occurrences
RECURSIVE str_replace(_, _, _)
str_replace(s, old, new) ==
    IF Len(s) < Len(old) THEN s
    ELSE IF SubSeq(s, 1, Len(old)) = old
         THEN new \o str_replace(SubSeq(s, Len(old) + 1, Len(s)), old, new)
         ELSE <<Head(s)>> \o str_replace(Tail(s), old, new)

\* x in lst, for a list of strings
list_in(x, lst) == \E k \in 1..Len(lst) : lst[k] = x

\* any(txt in s for txt in lst)
any_in(lst, s) == \E k \in 1..Len(lst) : str_in(lst[k], s)

\* r[p], raising IndexError when p is out of range
getitem(r, p) == IF p >= 0 /\ p < Len(r) THEN r[p + 1] ELSE IndexError

\* d[k] = val for a dict d
dict_set(d, k, val) ==
    [x \in (DOMAIN d) \cup {k} |-> IF x = k THEN val ELSE d[x]]

EmptyDict == [x \in {} |-> x]

-----------------------------------------------------------------------------
(* The literals of process_extracted_table *)

\* ["반영여부", "적합여부"]
TriggerLiterals ==
    << <<"ban", "yeong", "yeo", "bu">>, <<"jeok", "hap", "yeo", "bu">> >>

\* ["반영", "부분반영", "권고", "적합", "조건부적합"]
AcceptLiterals ==
    << <<"ban", "yeong">>,
       <<"bu", "bun", "ban", "yeong">>,
       <<"gwon", "go">>,
       <<"jeok", "hap">>,
       <<"jo", "geon", "bu", "jeok", "hap">> >>

\* ["미반영", "해당없음", "해당사항 없음"]
RejectLiterals ==
    << <<"mi", "ban", "yeong">>,
       <<"hae", "dang", "eop", "eum">>,
       <<"hae", "dang", "sa", "hang", " ", "eop", "eum">> >>

-----------------------------------------------------------------------------
(* class Table *)

Table(columns, target_index, at) ==
    [kind |-> "Table",
     columns |-> columns,
     rows |-> <<>>,
     target_index |-> target_index,
     \* history, not program state: the iteration that constructed the
     \* table and the iterations that appended each of its rows
     trigger_row |-> at,
     source_rows |-> <<>>]

\* Variant: the element is put at the front.
list_prepend(lst, x) == <<x>> \o lst

list_append(lst, x) == Append(lst, x)

-----------------------------------------------------------------------------
(* extract_columns *)

\* The loop of extract_columns from index idx on, with the locals so far.
RECURSIVE extract_columns_from(_, _, _, _)
extract_columns_from(r, idx, columns, recent_columns) ==
    IF idx >= Len(r) THEN columns
    ELSE LET item == r[idx + 1] IN
         IF isinstance_str(item) /\ item.v \notin recent_columns
         THEN extract_columns_from(r, idx + 1, dict_set(columns, idx, item.v),
                                   recent_columns \cup {item.v})
         ELSE extract_columns_from(r, idx + 1, columns, recent_columns)

\* Variant: every text cell is mapped, repeated values included.
extract_columns_all(r) ==
    [p \in {q \in 0..(Len(r) - 1) : isinstance_str(r[q + 1])} |-> r[p + 1].v]

extract_columns(r) == extract_columns_from(r, 0, EmptyDict, {})

-----------------------------------------------------------------------------
(* process_extracted_table *)

\* Variant: the cell is compared as it is, spaces included.
is_trigger_exact(item) ==
    /\ Truthy(item)
    /\ isinstance_str(item)
    /\ list_in(item.v, TriggerLiterals)

\* item.replace(" ", "") in ["반영여부", "적합여부"], for a non-empty string
is_trigger(item) ==
    /\ Truthy(item)
    /\ isinstance_str(item)
    /\ list_in(str_replace(item.v, <<" ">>, <<>>), TriggerLiterals)

\* The inner for loop of the inactive branch from index on: the index at
\* which it breaks, or -1 when it runs to the end of the row.
RECURSIVE scan_trigger(_, _)
scan_trigger(r, index) ==
    IF index >= Len(r) THEN -1
    ELSE IF is_trigger(r[index + 1]) THEN index
    ELSE scan_trigger(r, index + 1)

\* Variant: the subscript without the length test.
target_value_unchecked(r, target_index) == getitem(r, target_index)

\* row[curr_table.target_index] if curr_table.target_index < len(row) else ""
target_value_of(r, target_index) ==
    IF target_index < Len(r) THEN getitem(r, target_index) ELSE Str(<<>>)

\* Variant: the reject literals are tested before the accept literals.
classify_reject_first(target_value) ==
    IF isinstance_str(target_value)
    THEN IF any_in(RejectLiterals, target_value.v) THEN "skip"
         ELSE IF any_in(AcceptLiterals, target_value.v) THEN "keep"
         ELSE "terminate"
    ELSE "ignore"

\* Variant: a value that is not text takes the else branch of the strings.
classify_nontext_terminates(target_value) ==
    IF isinstance_str(target_value)
    THEN IF any_in(AcceptLiterals, target_value.v) THEN "keep"
         ELSE IF any_in(RejectLiterals, target_value.v) THEN "skip"
         ELSE "terminate"
    ELSE "terminate"

\* The if / elif / else over target_value of the active branch.
classify(target_value) ==
    IF isinstance_str(target_value)
    THEN IF any_in(AcceptLiterals, target_value.v) THEN "keep"
         ELSE IF any_in(RejectLiterals, target_value.v) THEN "skip"
         ELSE "terminate"
    ELSE "ignore"

\* columns.get(index, None): a header name (text) or None
columns_get(columns, index) ==
    IF index \in DOMAIN columns THEN Str(columns[index]) ELSE NoneCell

\* The loop that builds curr_row, from index on.
RECURSIVE project_from(_, _, _, _)
project_from(r, columns, index, curr_row) ==
    IF index >= Len(r) THEN curr_row
    ELSE IF Truthy(columns_get(columns, index))
         THEN project_from(r, columns, index + 1,
                           dict_set(curr_row, columns[index], r[index + 1]))
         ELSE project_from(r, columns, index + 1, curr_row)

\* Variant: "index in columns" instead of the truth value of the header.
project_mapped(r, columns) ==
    LET P == {p \in DOMAIN columns : p < Len(r)} IN
    [h \in {columns[p] : p \in P} |->
        r[(CHOOSE p \in P : columns[p] = h) + 1]]

project(r, columns) == project_from(r, columns, 0, EmptyDict)

\* Variant: nothing is appended after the loop.
flush_nothing(tables, table) == tables

\* if curr_table: extracted_tables.append(curr_table)
flush(tables, table) ==
    IF table # None THEN list_append(tables, table) ELSE tables

-----------------------------------------------------------------------------
(* The data frame *)

\* Rows of n cells over the values C.
RowsOf(C, n) == [1..n -> C]

\* The tuple itertuples() yields for the k-th row (0-based): Index, cells.
itertuple(k, cs) == <<Number(k)>> \o cs

-----------------------------------------------------------------------------
(* Cell values *)

T_banyeong == Str(<<"ban", "yeong", "yeo", "bu">>)             \* "반영여부"
T_jeokhap == Str(<<"jeok", "hap", "yeo", "bu">>)               \* "적합여부"
T_space == Str(<<"ban", "yeong", " ", "yeo", "bu">>)           \* "반영 여부"
T_tab == Str(<<"ban", "yeong", "\t", "yeo", "bu">>)            \* "반영\t여부"
V_mibanyeong == Str(<<"mi", "ban", "yeong">>)                  \* "미반영"
V_haedang == Str(<<"hae", "dang", "eop", "eum">>)              \* "해당없음"
V_boryu == Str(<<"bo", "ryu">>)                                \* "보류"
V_empty == Str(<<>>)                                           \* ""
V_number == Number(7)

-----------------------------------------------------------------------------
(* process_extracted_table as a state machine *)

Running == pc \notin {"return", "raise"}

InitWith(C, W, L) ==
    /\ cells = C
    /\ widths \in W
    /\ limit = L
    /\ i = 0
    /\ row = <<>>
    /\ table_detected = FALSE
    /\ curr_table = None
    /\ extracted_tables = <<>>
    /\ pc = "start"

\* A pandas DataFrame: every row has the same number of cells.
DataFrameWidths == {{n} : n \in 1..MaxCols}

\* Any object with itertuples(): the rows may differ in length.
RaggedWidths == {1..MaxCols}

\* One iteration of "for row in df.itertuples()" on the tuple r.
Body(r) ==
    IF ~table_detected
    THEN LET index == scan_trigger(r, 0) IN
         IF index >= 0
         THEN /\ table_detected' = TRUE
              /\ curr_table' = Table(extract_columns(r), index, i)
              /\ pc' = "trigger"
              /\ UNCHANGED extracted_tables
         ELSE /\ pc' = "scan"
              /\ UNCHANGED <<table_detected, curr_table, extracted_tables>>
    ELSE LET target_value == target_value_of(r, curr_table.target_index)
             branch == classify(target_value)
         IN
         IF target_value = IndexError
         THEN /\ pc' = "raise"
              /\ UNCHANGED <<table_detected, curr_table, extracted_tables>>
         ELSE IF branch = "keep"
         THEN /\ curr_table' =
                    [curr_table EXCEPT
                        !.rows = list_append(@, project(r, curr_table.columns)),
                        !.source_rows = list_append(@, i)]
              /\ pc' = "keep"
              /\ UNCHANGED <<table_detected, extracted_tables>>
         ELSE IF branch = "skip"
         THEN /\ pc' = "skip"
              /\ UNCHANGED <<table_detected, curr_table, extracted_tables>>
         ELSE IF branch = "terminate"
         THEN /\ extracted_tables' = list_append(extracted_tables, curr_table)
              /\ curr_table' = None
              /\ table_detected' = FALSE
              /\ pc' = "terminate"
         ELSE /\ pc' = "ignore"
              /\ UNCHANGED <<table_detected, curr_table, extracted_tables>>

\* The for loop takes the next row of the data frame.
ForRow ==
    /\ Running
    /\ i < limit
    /\ \E n \in widths : \E cs \in RowsOf(cells, n) :
          /\ row' = itertuple(i, cs)
          /\ Body(itertuple(i, cs))
    /\ i' = i + 1
    /\ UNCHANGED <<cells, widths, limit>>

\* The data frame is exhausted: flush and return extracted_tables.
Return ==
    /\ Running
    /\ extracted_tables' = flush(extracted_tables, curr_table)
    /\ pc' = "return"
    /\ UNCHANGED <<cells, widths, limit, i, row, table_detected, curr_table>>

Next == ForRow \/ Return

-----------------------------------------------------------------------------
(* Specifications: one per family of data frames *)

\* Trigger rows, kept rows ("적합여부" contains "적합") and terminating rows.
CellsBase == {T_jeokhap, V_boryu}

Init == InitWith(CellsBase, DataFrameWidths, MaxRows)

Spec == Init /\ [][Next]_vars

\* Target values that contain accept and reject literals.
CellsReject == {T_banyeong, V_mibanyeong, V_haedang}

InitReject == InitWith(CellsReject, DataFrameWidths, MaxRowsRich)

SpecReject == InitReject /\ [][Next]_vars

\* Cells that are not text.
CellsNonText == {T_jeokhap, V_number, NoneCell}

InitNonText == InitWith(CellsNonText, DataFrameWidths, MaxRowsRich)

SpecNonText == InitNonText /\ [][Next]_vars

\* Trigger spellings with embedded whitespace.
CellsTrigger == {T_banyeong, T_space, T_tab}

InitTrigger == InitWith(CellsTrigger, DataFrameWidths, MaxRowsRich)

SpecTrigger == InitTrigger /\ [][Next]_vars

\* Empty strings as cells and as header names.
CellsEmpty == {T_jeokhap, V_empty, V_boryu}

InitEmpty == InitWith(CellsEmpty, DataFrameWidths, MaxRowsRich)

SpecEmpty == InitEmpty /\ [][Next]_vars

\* Rows of differing lengths.
CellsRagged == {T_jeokhap, V_empty, V_boryu}

InitRagged == InitWith(CellsRagged, RaggedWidths, MaxRowsRich)

SpecRagged == InitRagged /\ [][Next]_vars

-----------------------------------------------------------------------------
(* Vocabulary of the properties *)

Range(f) == {f[x] : x \in DOMAIN f}

Min(S) == CHOOSE x \in S : \A y \in S : x <= y

Last(lst) == lst[Len(lst)]

\* The step is one iteration of the for loop, on the tuple row'.
Iterated == i' = i + 1

\* lit occurs in s at some position
Contains(s, lit) ==
    \E a \in 1..(Len(s) + 1) :
        \A j \in 1..Len(lit) : a + j - 1 <= Len(s) /\ s[a + j - 1] = lit[j]

ContainsAccept(s) == \E lit \in Range(AcceptLiterals) : Contains(s, lit)

ContainsReject(s) == \E lit \in Range(RejectLiterals) : Contains(s, lit)

IsText(c) == c.t = "str"

\* The tuple r has an element at Python index p.
Has(r, p) == p >= 0 /\ p < Len(r)

\* Python indices of the tuple r
Indices(r) == 0..(Len(r) - 1)

\* The tables constructed so far, in output order followed by the active one.
AllTables ==
    IF curr_table # None /\ pc # "return"
    THEN Append(extracted_tables, curr_table)
    ELSE extracted_tables

-----------------------------------------------------------------------------
(* C1 *)

\* An exact trigger cell, "반영여부" or "적합여부".
ExactTrigger(c) == IsText(c) /\ c.v \in Range(TriggerLiterals)

\* C1: a row that terminates the active table and also holds a trigger cell
\* starts a new table whose ColumnMap is built from that row.
C1_TerminationRescan ==
    (pc = "terminate" /\ \E p \in Indices(row) : ExactTrigger(row[p + 1]))
        => /\ table_detected
           /\ curr_table # None
           /\ curr_table.columns = extract_columns(row)

-----------------------------------------------------------------------------
(* C2 *)

\* The cell of r at the table's target index exists and is not text.
NonTextTarget(r, t) ==
    Has(r, t.target_index) /\ ~IsText(r[t.target_index + 1])

-----------------------------------------------------------------------------
(* C3 *)

\* The target cell of r is text equal to one of the reject literals.
RejectTarget(r, t) ==
    /\ Has(r, t.target_index)
    /\ IsText(r[t.target_index + 1])
    /\ r[t.target_index + 1].v \in Range(RejectLiterals)

\* C3: while a table is active, a row whose target value is a reject
\* literal adds no row-record and leaves the table active.
C3_RejectSkipped ==
    [][(Iterated /\ table_detected /\ RejectTarget(row', curr_table))
          => /\ table_detected'
             /\ curr_table' = curr_table
             /\ extracted_tables' = extracted_tables]_vars

-----------------------------------------------------------------------------
(* C4 *)

\* C4: when the function has returned and a table was still active at the
\* end of the input, that table is the last element of the output and
\* occurs in it once; no table occurs in the output twice (each table is
\* the one constructed at its trigger row).
C4_FlushOnExhaustion ==
    pc = "return" =>
        /\ table_detected =>
              /\ extracted_tables # <<>>
              /\ Last(extracted_tables) = curr_table
              /\ Cardinality({k \in DOMAIN extracted_tables :
                                 extracted_tables[k] = curr_table}) = 1
        /\ \A j, k \in DOMAIN extracted_tables :
              extracted_tables[j].trigger_row = extracted_tables[k].trigger_row
                  => j = k

\* The input ended right after a trigger row, with an earlier table already
\* closed by a terminating row.
C4_Witness ==
    /\ pc = "return"
    /\ table_detected
    /\ curr_table.rows = <<>>
    /\ Len(extracted_tables) = 2
    /\ extracted_tables[1].rows # <<>>

-----------------------------------------------------------------------------
(* C5 *)

StrictlyIncreasing(lst) ==
    \A j, k \in DOMAIN lst : j < k => lst[j] < lst[k]

\* C5: tables are output in the order of their trigger rows; the rows of a
\* table are in source order, one source row per record, each strictly
\* after the table's trigger row and strictly before the next table's.
C5_Ordering ==
    /\ StrictlyIncreasing([k \in DOMAIN AllTables |-> AllTables[k].trigger_row])
    /\ \A k \in DOMAIN AllTables :
          LET t == AllTables[k] IN
          /\ Len(t.source_rows) = Len(t.rows)
          /\ StrictlyIncreasing(t.source_rows)
          /\ \A m \in DOMAIN t.source_rows :
                /\ t.trigger_row < t.source_rows[m]
                /\ k < Len(AllTables)
                      => t.source_rows[m] < AllTables[k + 1].trigger_row

\* Two tables in the output, of two rows and of one row.
C5_Witness ==
    /\ pc = "return"
    /\ Len(extracted_tables) = 2
    /\ Len(extracted_tables[1].rows) = 2
    /\ Len(extracted_tables[2].rows) = 1

-----------------------------------------------------------------------------
(* C6 *)

Whitespace == {" ", "\t", "\n"}

\* The text with the characters of W removed.
Without(s, W) == SelectSeq(s, LAMBDA c : c \notin W)

\* The indices of the text cells of r that equal a trigger literal once the
\* characters of W are removed.
TriggerIndices(r, W) ==
    {p \in Indices(r) :
        /\ IsText(r[p + 1])
        /\ Without(r[p + 1].v, W) \in Range(TriggerLiterals)}

\* An iteration in the inactive state recognizes the first cell that is a
\* trigger once the characters of W are removed, and no other cell.
TriggerRule(W) ==
    /\ pc = "scan" => TriggerIndices(row, W) = {}
    /\ pc = "trigger" =>
          /\ TriggerIndices(row, W) # {}
          /\ curr_table.target_index = Min(TriggerIndices(row, W))

\* C6 as claimed: the trigger test removes all whitespace (spaces, tabs,
\* newlines).
C6_WhitespaceInsensitive == TriggerRule(Whitespace)

\* C6 amended: the trigger test removes the space character only.
C6_SpaceInsensitive == TriggerRule({" "})

\* "반영 여부" was recognized after a cell "반영\t여부" of the same row was not.
C6_Witness ==
    /\ pc = "trigger"
    /\ row[curr_table.target_index + 1] = T_space
    /\ curr_table.target_index = 2
    /\ row[2] = T_tab

-----------------------------------------------------------------------------
(* C7 *)

\* The row r has no cell at the target index of t, or a text there that
\* contains no accept and no reject literal.
NoLiteralTarget(r, t) ==
    \/ Len(r) < t.target_index + 1
    \/ /\ IsText(r[t.target_index + 1])
       /\ ~ContainsAccept(r[t.target_index + 1].v)
       /\ ~ContainsReject(r[t.target_index + 1].v)

\* C7: while a table is active, a row that is too short for the target
\* index, or whose target text contains no literal, raises nothing and
\* closes the table with the rows accumulated so far.
C7_TerminateWithoutFault ==
    [][(Iterated /\ table_detected /\ NoLiteralTarget(row', curr_table))
          => /\ pc' # "raise"
             /\ extracted_tables' = Append(extracted_tables, curr_table)
             /\ ~table_detected'
             /\ curr_table' = None]_vars

\* A table with a row was closed by a row too short for its target index.
C7_Witness ==
    /\ pc = "terminate"
    /\ Len(row) < Last(extracted_tables).target_index + 1
    /\ Last(extracted_tables).rows # <<>>

-----------------------------------------------------------------------------
(* C8 *)

\* The target cell of r is text.
TextTarget(r, t) == Has(r, t.target_index) /\ IsText(r[t.target_index + 1])

\* C8: a row whose target text contains an accept literal yields a record
\* whether or not it also contains a reject literal; a row is skipped only
\* when its target text contains no accept literal.
C8_AcceptBeforeReject ==
    [][(Iterated /\ table_detected /\ TextTarget(row', curr_table))
          => LET s == row'[curr_table.target_index + 1].v IN
             /\ ContainsAccept(s) =>
                   /\ table_detected'
                   /\ Len(curr_table'.rows) = Len(curr_table.rows) + 1
                   /\ curr_table'.source_rows = Append(curr_table.source_rows, i)
             /\ (~ContainsAccept(s) /\ ContainsReject(s)) =>
                   /\ table_detected'
                   /\ curr_table' = curr_table]_vars

\* "미반영", which contains "반영", was kept.
C8_Witness ==
    /\ pc = "keep"
    /\ row[curr_table.target_index + 1] = V_mibanyeong
    /\ Len(curr_table.rows) = 1

-----------------------------------------------------------------------------
(* C9 *)

\* The indices of r that hold a text not held at an earlier index.
FirstTextIndices(r) ==
    {p \in Indices(r) :
        /\ IsText(r[p + 1])
        /\ \A q \in Indices(r) : q < p => r[q + 1] # r[p + 1]}

\* C9: the ColumnMap of a trigger row maps exactly the first index of each
\* text value to that text, so its header names are pairwise distinct and
\* no non-text cell is mapped.
C9_HeaderUniqueness ==
    /\ pc = "trigger" =>
          /\ DOMAIN curr_table.columns = FirstTextIndices(row)
          /\ \A p \in DOMAIN curr_table.columns :
                row[p + 1] = Str(curr_table.columns[p])
    /\ \A k \in DOMAIN AllTables :
          \A p, q \in DOMAIN AllTables[k].columns :
              AllTables[k].columns[p] = AllTables[k].columns[q] => p = q

\* A trigger row with the same text at two indices.
C9_Witness ==
    /\ pc = "trigger"
    /\ Len(row) = 3
    /\ row[2] = row[3]
    /\ DOMAIN curr_table.columns = {1}

-----------------------------------------------------------------------------
(* C10 *)

HeaderNames(columns) == Range(columns)

\* C10 as claimed: the key set of a kept row's record is the set of header
\* names of the ColumnMap.
C10_KeysAreHeaders ==
    pc = "keep" =>
        DOMAIN Last(curr_table.rows) = HeaderNames(curr_table.columns)

\* The mapped indices the projection of r uses: within the row, with a
\* non-empty header name.
Projected(r, columns) ==
    {p \in DOMAIN columns : p < Len(r) /\ columns[p] # <<>>}

\* C10 amended: the record of a kept row has exactly one entry for each
\* mapped index within the row whose header name is not empty, from the
\* header name to the row's cell there, the target column included.
C10_Projection ==
    pc = "keep" =>
        LET rec == Last(curr_table.rows)
            P == Projected(row, curr_table.columns)
        IN /\ DOMAIN rec = {curr_table.columns[p] : p \in P}
           /\ \A p \in P : rec[curr_table.columns[p]] = row[p + 1]
           /\ curr_table.target_index \in P

\* A kept row under a ColumnMap with an empty header name.
C10_Witness ==
    /\ pc = "keep"
    /\ <<>> \in HeaderNames(curr_table.columns)
    /\ Last(curr_table.rows) # EmptyDict

====
